---- MODULE Spec2Model ----
(***************************************************************************)
(* EmailService.js: an email service with two providers, per-provider      *)
(* retry with exponential backoff, fallback, an idempotency set and a      *)
(* sliding-window rate limiter.                                            *)
(*                                                                         *)
(* A send call is an async function: it runs synchronously up to its next  *)
(* await (the awaited sendEmail promise, the backoff timer) and is resumed *)
(* later by the event loop.  Each action below is one such synchronous     *)
(* segment of one call.                                                    *)
(*                                                                         *)
(* Spec       callers issue send calls that may overlap (EmailService as   *)
(*            a class, for any maxRetries from 1 to the default)           *)
(* RaceSpec   Spec with one more send call                                 *)
(* LiveSpec   Spec with the event loop's fairness                          *)
(* StatusSpec overlapping send calls and getStatus calls                   *)
(* PoolSpec   overlapping send calls that fill the limiter's window        *)
(* BurstSpec  one caller that awaits each send before the next, as the     *)
(*            test driver at the end of the file does                      *)
(* LimiterSpec a RateLimiter alone, for any limit and intervalMs           *)
(***************************************************************************)
EXTENDS Integers, Sequences, FiniteSets, TLC

\* ---- bounds of the model ------------------------------------------------
MaxSends == 2          \* send calls issued in one behaviour (Spec)
MaxTicks == 1          \* times the clock is seen to have advanced in one behaviour
BurstRetries == 1      \* maxRetries of the service (BurstSpec)
MaxLimit == 2          \* largest RateLimiter.limit (LimiterSpec)
MaxInterval == 3       \* largest RateLimiter.intervalMs (LimiterSpec)
MaxChecks == 5         \* isAllowed calls in one behaviour (LimiterSpec)
MaxClock == 5          \* last clock value (LimiterSpec)

\* ---- program constants --------------------------------------------------
DefaultMaxRetries == 3 \* constructor(provider1, provider2, maxRetries = 3)
NumProviders == 2      \* this.providers = [provider1, provider2]
ServiceLimit == 5      \* new RateLimiter(5, 10000)
ServiceInterval == 10000
InitialDelay == 100    \* let delay = 100
\* the clock advances in steps of the limiter's window, in ms
TickStep == ServiceInterval
\* send calls issued in one behaviour of BurstSpec: one more than the limit
MaxBurst == ServiceLimit + 1
\* send calls issued in one behaviour of RaceSpec
MaxRace == MaxSends + 1

\* Call slots.  Where calls overlap (Spec, RaceSpec) the t-th send call of a
\* behaviour runs in slot t; the caller that awaits each send (BurstSpec)
\* runs them all in slot 1.
Tasks == 1..MaxRace
\* every send call of a behaviour may name an emailId of its own
Ids == 1..(IF MaxRace > MaxBurst THEN MaxRace ELSE MaxBurst)

\* EmailProvider.name of providers[p]
ProviderName(p) == IF p = 1 THEN "MockProvider1" ELSE "MockProvider2"

VARIABLES
    now,          \* the last value Date.now() returned
    limit,        \* RateLimiter.limit
    intervalMs,   \* RateLimiter.intervalMs
    timestamps,   \* RateLimiter.timestamps
    maxRetries,   \* EmailService.maxRetries
    sentEmails,   \* EmailService.sentEmails (Set)
    statusMap,    \* EmailService.statusMap (Map: a function on its keys)
    pc,           \* per call slot: "idle", "calling", "backoff", "done", "threw"
    emailId,      \* per call slot: the emailId argument
    prov,         \* per call slot: loop variable i (1-based)
    attempts,     \* per call slot: local attempts
    delay,        \* per call slot: local delay
    pending,      \* per call slot: outcome of the awaited sendEmail promise
    ret,          \* per call slot: the value the call returned
    lookup,       \* the last getStatus call and its result
    \* history (not read by the program)
    log,          \* per call slot: backend calls and backoff waits of the call
    short,        \* per call slot: the call returned at line 45
    admCount,     \* per call slot: admissions in the window at its check
    succ,         \* per emailId: number of sendEmail calls that succeeded
    admitted,     \* times at which isAllowed returned true
    denied,       \* number of isAllowed calls that returned false
    seen,         \* emailIds passed to send so far
    nsends,       \* number of send calls issued
    nticks        \* number of times the clock was seen to have advanced

vars == <<now, limit, intervalMs, timestamps, maxRetries, sentEmails,
          statusMap, pc, emailId, prov, attempts, delay, pending, ret,
          lookup, log, short, admCount, succ, admitted, denied, seen, nsends,
          nticks>>

rlVars == <<limit, intervalMs, timestamps>>
svcVars == <<maxRetries, sentEmails, statusMap>>
taskVars == <<pc, emailId, prov, attempts, delay, pending, ret>>
histVars == <<log, short, admCount, succ, admitted, denied, seen, nsends>>

\* ---- status values ------------------------------------------------------
RateLimitedStatus == [status |-> "rate_limited", attempts |-> 0]
FailedAttempts(mr) == mr * NumProviders
FailureStatus(mr) == [status |-> "failed", attempts |-> FailedAttempts(mr)]
UnknownStatus == [status |-> "unknown"]
NoValue == [status |-> "undefined"]

\* ---- Map ----------------------------------------------------------------
MapGet(m, k) == IF k \in DOMAIN m THEN m[k] ELSE NoValue
MapSet(m, k, v) == [x \in (DOMAIN m) \cup {k} |-> IF x = k THEN v ELSE m[x]]

\* ---- RateLimiter.isAllowed ----------------------------------------------
\* (mutant: <= for <)
InWindowClosed(t, ts, w) == t - ts <= w
\* ts => now - ts < this.intervalMs
InWindow(t, ts, w) == t - ts < w
Filtered(tss, t, w) == SelectSeq(tss, LAMBDA ts : InWindow(t, ts, w))
\* (mutant: <= for <)
AdmitsOffByOne(tss, lim) == Len(tss) <= lim
\* this.timestamps.length < this.limit
Admits(tss, lim) == Len(tss) < lim
IsAllowed(tss, t, w, lim) == Admits(Filtered(tss, t, w), lim)
\* (mutant: the push comes before the test of the length)
AfterIsAllowedAlwaysPush(tss, t, w, lim) == Append(Filtered(tss, t, w), t)
\* this.timestamps after isAllowed()
AfterIsAllowed(tss, t, w, lim) ==
    IF Admits(Filtered(tss, t, w), lim)
    THEN Append(Filtered(tss, t, w), t)
    ELSE Filtered(tss, t, w)

\* ---- history helpers ----------------------------------------------------
CallEvent(p, ok) == [k |-> "call", p |-> p, ok |-> ok, d |-> 0]
WaitEvent(p, d) == [k |-> "wait", p |-> p, ok |-> FALSE, d |-> d]
InFlight(t) == pc[t] \in {"calling", "backoff"}
\* admissions recorded in the history that are less than w old at time t
AdmittedIn(t, w) == Len(SelectSeq(admitted, LAMBDA a : a <= t /\ t - a < w))

\* The state after construction: a RateLimiter(lim, w) and the fields of
\* an EmailService with maxRetries in R.
InitWith(R, lim, w) ==
    /\ now = 0
    /\ limit = lim
    /\ intervalMs = w
    /\ timestamps = <<>>
    /\ maxRetries \in R
    /\ sentEmails = {}
    /\ statusMap = <<>>
    /\ pc = [t \in Tasks |-> "idle"]
    /\ emailId = [t \in Tasks |-> 0]
    /\ prov = [t \in Tasks |-> 0]
    /\ attempts = [t \in Tasks |-> 0]
    /\ delay = [t \in Tasks |-> 0]
    /\ pending = [t \in Tasks |-> "none"]
    /\ ret = [t \in Tasks |-> NoValue]
    /\ lookup = <<>>
    /\ log = [t \in Tasks |-> <<>>]
    /\ short = [t \in Tasks |-> FALSE]
    /\ admCount = [t \in Tasks |-> 0]
    /\ succ = [e \in Ids |-> 0]
    /\ admitted = <<>>
    /\ denied = 0
    /\ seen = {}
    /\ nsends = 0
    /\ nticks = 0

\* new EmailService(provider1, provider2, maxRetries)
Init == InitWith(1..DefaultMaxRetries, ServiceLimit, ServiceInterval)

\* ---- EmailProvider.sendEmail --------------------------------------------
\* The promise sendEmail returns is settled when the call returns:
\* rejected when Math.random() < failureRate, resolved otherwise.
SendEmailOutcomes == {"resolved", "rejected"}

\* ---- EmailService.send: pieces of the retry loop -------------------------
\* (mutant: <= for <)
RetryCondOneMore(att, mr) == att <= mr
\* while (attempts < this.maxRetries)
RetryCond(att, mr) == att < mr
\* (mutant: attempts for attempts + 1)
SuccessAttemptsZeroBased(att) == att
\* attempts: attempts + 1 in the sent status
SuccessAttempts(att) == att + 1
\* (mutant: this.providers[0].name for result.provider)
ResultProviderFirst(p) == ProviderName(1)
\* provider: result.provider in the sent status
ResultProvider(p) == ProviderName(p)
SuccessStatus(p, att) ==
    [status |-> "sent", provider |-> ResultProvider(p), attempts |-> SuccessAttempts(att)]
\* (mutant: the last attempt's error is thrown again)
HandlerRethrowsLast(p, att) == IF p = NumProviders THEN "rethrow" ELSE "catch"
\* the try/catch around the awaited sendEmail catches every rejection
HandlerFor(p, att) == "catch"
\* (mutant: setTimeout is not given res, so the promise never resolves)
TimerNeverResolves(dl) == FALSE
\* new Promise(res => setTimeout(res, delay)): the timer resolves the promise
TimerResolves(dl) == TRUE
\* (mutant: the delay grows by the base instead of doubling)
NextDelayLinear(dl) == dl + InitialDelay
\* delay *= 2
NextDelay(dl) == dl * 2

\* The loop head of send for call slot t, reached with loop variables
\* (i, attempts, delay) = (p, att, dl): the next sendEmail call, or, when
\* every provider's loop is over, the failed status.
Dispatch(t, e, p, att, dl, lg) ==
    LET same == RetryCond(att, maxRetries)
        callable == same \/ (p < NumProviders /\ RetryCond(0, maxRetries))
        cp == IF same THEN p ELSE p + 1
        ca == IF same THEN att ELSE 0
        cd == IF same THEN dl ELSE InitialDelay
    IN  IF callable
        THEN \E o \in SendEmailOutcomes :
               /\ pc' = [pc EXCEPT ![t] = "calling"]
               /\ prov' = [prov EXCEPT ![t] = cp]
               /\ attempts' = [attempts EXCEPT ![t] = ca]
               /\ delay' = [delay EXCEPT ![t] = cd]
               /\ pending' = [pending EXCEPT ![t] = o]
               /\ ret' = [ret EXCEPT ![t] = NoValue]
               /\ log' = [log EXCEPT ![t] = Append(lg, CallEvent(cp, o = "resolved"))]
               /\ succ' = [succ EXCEPT ![e] = @ + (IF o = "resolved" THEN 1 ELSE 0)]
               /\ statusMap' = statusMap
        ELSE /\ pc' = [pc EXCEPT ![t] = "done"]
             /\ prov' = [prov EXCEPT ![t] = 0]
             /\ attempts' = [attempts EXCEPT ![t] = 0]
             /\ delay' = [delay EXCEPT ![t] = 0]
             /\ pending' = [pending EXCEPT ![t] = "none"]
             /\ ret' = [ret EXCEPT ![t] = FailureStatus(maxRetries)]
             /\ log' = [log EXCEPT ![t] = lg]
             /\ succ' = succ
             /\ statusMap' = MapSet(statusMap, e, FailureStatus(maxRetries))

\* Date.now() is the wall clock, which the timers do not drive: a reading is
\* the last reading or a later time (the claims are about non-decreasing
\* times).
ClockReadings == {now} \cup (IF nticks < MaxTicks THEN {now + TickStep} ELSE {})

\* (mutant: the sentEmails test is missing)
NeverAlreadySent(sent, e) == FALSE
\* if (this.sentEmails.has(emailId))
AlreadySent(sent, e) == e \in sent

\* (mutant: isAllowed is called before the sentEmails test)
TimestampsCheckedFirst(tss, t, w, lim) == AfterIsAllowed(tss, t, w, lim)
\* this.rateLimiter.timestamps after a call that returns at line 45, before
\* the isAllowed call of line 48 is reached
TimestampsOnShortCircuit(tss, t, w, lim) == tss

\* send(emailId, emailData) up to its first await or its return; r is what
\* Date.now() returns if isAllowed is called.
Send(t, e, r) ==
    /\ nsends' = nsends + 1
    /\ seen' = seen \cup {e}
    /\ emailId' = [emailId EXCEPT ![t] = e]
    /\ UNCHANGED <<limit, intervalMs, sentEmails, maxRetries>>
    /\ now' = IF AlreadySent(sentEmails, e) THEN now ELSE r
    /\ nticks' = IF AlreadySent(sentEmails, e) \/ r = now THEN nticks ELSE nticks + 1
    /\ IF AlreadySent(sentEmails, e)
       THEN /\ ret' = [ret EXCEPT ![t] = MapGet(statusMap, e)]
            /\ pc' = [pc EXCEPT ![t] = "done"]
            /\ short' = [short EXCEPT ![t] = TRUE]
            /\ log' = [log EXCEPT ![t] = <<>>]
            /\ pending' = [pending EXCEPT ![t] = "none"]
            /\ timestamps' = TimestampsOnShortCircuit(timestamps, r, intervalMs, limit)
            /\ UNCHANGED <<statusMap, prov, attempts, delay,
                           admCount, succ, admitted, denied>>
       ELSE /\ short' = [short EXCEPT ![t] = FALSE]
            /\ timestamps' = AfterIsAllowed(timestamps, r, intervalMs, limit)
            /\ admCount' = [admCount EXCEPT ![t] = AdmittedIn(r, intervalMs)]
            /\ IF ~IsAllowed(timestamps, r, intervalMs, limit)
               THEN /\ statusMap' = MapSet(statusMap, e, RateLimitedStatus)
                    /\ ret' = [ret EXCEPT ![t] = RateLimitedStatus]
                    /\ pc' = [pc EXCEPT ![t] = "done"]
                    /\ log' = [log EXCEPT ![t] = <<>>]
                    /\ pending' = [pending EXCEPT ![t] = "none"]
                    /\ denied' = denied + 1
                    /\ UNCHANGED <<prov, attempts, delay, succ, admitted>>
               ELSE /\ admitted' = Append(admitted, r)
                    /\ denied' = denied
                    /\ Dispatch(t, e, 1, 0, InitialDelay, <<>>)

\* The emailId of the next call: one already passed to send, or the first
\* one never passed (emailIds are opaque, so their order is immaterial).
NextIds == {e \in Ids : e <= Cardinality(seen) + 1}

\* A caller issues send(e, ...) while other calls may be in flight; cap
\* bounds the calls of a behaviour.
SendStart(t, e, cap) ==
    /\ t = nsends + 1
    /\ nsends < cap
    /\ e \in NextIds
    /\ lookup' = lookup
    /\ \E r \in ClockReadings : Send(t, e, r)

\* send resumed after await provider.sendEmail(emailData).
Resume(t) ==
    /\ pc[t] = "calling"
    /\ UNCHANGED <<now, nticks, rlVars, maxRetries, emailId, lookup,
                   short, admCount, succ, admitted, denied, seen, nsends>>
    /\ pending' = [pending EXCEPT ![t] = "none"]
    /\ IF pending[t] = "resolved"
       THEN /\ sentEmails' = sentEmails \cup {emailId[t]}
            /\ statusMap' = MapSet(statusMap, emailId[t], SuccessStatus(prov[t], attempts[t]))
            /\ ret' = [ret EXCEPT ![t] = SuccessStatus(prov[t], attempts[t])]
            /\ pc' = [pc EXCEPT ![t] = "done"]
            /\ prov' = [prov EXCEPT ![t] = 0]
            /\ attempts' = [attempts EXCEPT ![t] = 0]
            /\ delay' = [delay EXCEPT ![t] = 0]
            /\ log' = log
       ELSE IF HandlerFor(prov[t], attempts[t]) = "catch"
       THEN /\ attempts' = [attempts EXCEPT ![t] = @ + 1]
            /\ log' = [log EXCEPT ![t] = Append(@, WaitEvent(prov[t], delay[t]))]
            /\ pc' = [pc EXCEPT ![t] = "backoff"]
            /\ UNCHANGED <<sentEmails, statusMap, ret, prov, delay>>
       ELSE /\ pc' = [pc EXCEPT ![t] = "threw"]
            /\ UNCHANGED <<sentEmails, statusMap, ret, prov, delay, attempts, log>>

\* The backoff timer of call slot t has fired and resolved its promise.
TimerDue(t) ==
    /\ pc[t] = "backoff"
    /\ TimerResolves(delay[t])

\* send resumed after await new Promise(res => setTimeout(res, delay)).
TimerFire(t) ==
    /\ TimerDue(t)
    /\ UNCHANGED <<now, nticks, rlVars, maxRetries, sentEmails, emailId, lookup,
                   short, admCount, admitted, denied, seen, nsends>>
    /\ Dispatch(t, emailId[t], prov[t], attempts[t], NextDelay(delay[t]), log[t])

\* (mutant: the || default is dropped)
GetStatusNoDefault(m, e) == MapGet(m, e)
\* getStatus(emailId): this.statusMap.get(emailId) || { status: 'unknown' }
\* (every stored value is an object, so || applies to an absent key only)
GetStatus(m, e) == IF e \in DOMAIN m THEN m[e] ELSE UnknownStatus

\* A caller calls getStatus(e); lookup keeps the call, its result and
\* whether e had been passed to send before.
GetStatusCall(e) ==
    /\ e \in NextIds
    /\ lookup' = <<[id |-> e, result |-> GetStatus(statusMap, e), fresh |-> e \notin seen]>>
    /\ UNCHANGED <<now, nticks, rlVars, svcVars, taskVars, histVars>>

\* ---- a RateLimiter on its own ---------------------------------------------
\* isAllowed(), called when Date.now() returns r.
LimiterCheck(r) ==
    /\ Len(admitted) + denied < MaxChecks
    /\ now <= r
    /\ now' = r
    /\ timestamps' = AfterIsAllowed(timestamps, r, intervalMs, limit)
    /\ IF IsAllowed(timestamps, r, intervalMs, limit)
       THEN admitted' = Append(admitted, r) /\ denied' = denied
       ELSE admitted' = admitted /\ denied' = denied + 1
    /\ UNCHANGED <<limit, intervalMs, svcVars, taskVars, lookup, log,
                   short, admCount, succ, seen, nsends, nticks>>

Next ==
    \/ \E t \in Tasks, e \in Ids : SendStart(t, e, MaxSends)
    \/ \E t \in Tasks : Resume(t)
    \/ \E t \in Tasks : TimerFire(t)

Spec == Init /\ [][Next]_vars

\* Spec with one more send call.
RaceNext ==
    \/ \E t \in Tasks, e \in Ids : SendStart(t, e, MaxRace)
    \/ \E t \in Tasks : Resume(t)
    \/ \E t \in Tasks : TimerFire(t)

RaceSpec == Init /\ [][RaceNext]_vars

\* new EmailService(provider1, provider2, BurstRetries), and one caller
\* that awaits each send before the next, as the test driver does.
BurstInit == InitWith({BurstRetries}, ServiceLimit, ServiceInterval)

BurstSend(e) ==
    /\ pc[1] \in {"idle", "done"}
    /\ nsends < MaxBurst
    /\ e \in NextIds
    /\ lookup' = lookup
    /\ \E r \in ClockReadings : Send(1, e, r)

BurstNext ==
    \/ \E e \in Ids : BurstSend(e)
    \/ Resume(1)
    \/ TimerFire(1)

BurstSpec == BurstInit /\ [][BurstNext]_vars

\* new RateLimiter(limit, intervalMs) for any small limit and intervalMs.
LimiterInit ==
    \E lim \in 0..MaxLimit, w \in 0..MaxInterval :
        InitWith({DefaultMaxRetries}, lim, w)

LimiterNext == \E r \in 0..MaxClock : LimiterCheck(r)

LimiterSpec == LimiterInit /\ [][LimiterNext]_vars

\* new EmailService(provider1, provider2, BurstRetries) with callers whose
\* send calls may overlap and who call getStatus at any moment.
StatusNext ==
    \/ \E t \in Tasks, e \in Ids : SendStart(t, e, MaxSends)
    \/ \E t \in Tasks : Resume(t)
    \/ \E t \in Tasks : TimerFire(t)
    \/ \E e \in Ids : GetStatusCall(e)

StatusSpec == BurstInit /\ [][StatusNext]_vars

\* new EmailService(provider1, provider2, BurstRetries) with callers that
\* keep up to MaxSends send calls in flight and issue MaxBurst calls in
\* all within one window of the limiter (at one reading of the clock), so
\* that calls overlap while the limiter fills up.  A call runs in the first
\* slot that holds no call in flight.
FreeSlot(t) ==
    /\ t <= MaxSends
    /\ pc[t] \in {"idle", "done"}
    /\ \A u \in 1..(t - 1) : pc[u] \notin {"idle", "done"}

PoolSend(t, e) ==
    /\ FreeSlot(t)
    /\ nsends < MaxBurst
    /\ e \in NextIds
    /\ lookup' = lookup
    /\ Send(t, e, now)

PoolNext ==
    \/ \E t \in Tasks, e \in Ids : PoolSend(t, e)
    \/ \E t \in Tasks : Resume(t)
    \/ \E t \in Tasks : TimerFire(t)

PoolSpec == BurstInit /\ [][PoolNext]_vars

\* Spec with the event loop's fairness: a settled promise's continuation
\* runs, and a timer that resolves its promise fires.
LiveSpec ==
    /\ Spec
    /\ \A t \in Tasks : WF_vars(Resume(t)) /\ WF_vars(TimerFire(t))

(***************************************************************************)
(* Properties                                                              *)
(***************************************************************************)
\* the backend calls of a call's log, in order
Calls(lg) == SelectSeq(lg, LAMBDA ev : ev.k = "call")
CallsOn(lg, p) == SelectSeq(lg, LAMBDA ev : ev.k = "call" /\ ev.p = p)
FailedCallsOn(lg, p) == SelectSeq(lg, LAMBDA ev : ev.k = "call" /\ ev.p = p /\ ~ev.ok)
Returned(t) == pc[t] = "done"
TerminalStatuses == {"sent", "failed", "rate_limited"}

\* C1: for every emailId, at most one sendEmail call made for it ever
\* succeeds, however many send calls name it and however they overlap.
AtMostOnceDelivery == \A e \in Ids : succ[e] <= 1

\* C2: once the status stored for an emailId is sent, no later step changes
\* the stored status of that emailId.
SentNeverOverwritten ==
    [][\A e \in DOMAIN statusMap :
          statusMap[e].status = "sent" => statusMap'[e] = statusMap[e]]_vars

\* C3: a send that starts after a send for the same emailId returned sent
\* (the emailId is in sentEmails: the call returns at line 45) returns a sent
\* status and calls no backend.
ShortCircuitReturnsSent ==
    \A t \in Tasks :
        (Returned(t) /\ short[t]) => (ret[t].status = "sent" /\ log[t] = <<>>)

\* C4: at every time T up to now, the isAllowed calls that returned true in
\* the window of intervalMs ending at T (those made at a time a with
\* T - intervalMs < a <= T) number at most limit.
RateLimiterBound == \A T \in 0..now : AdmittedIn(T, intervalMs) <= limit

\* C4 witness: a limiter with a window of two or more ms that has denied a
\* call with its window full, and later, the window having moved on, has
\* admitted more calls than limit in all.
SlidingWindowReached ==
    /\ limit >= 1
    /\ intervalMs >= 2
    /\ denied >= 1
    /\ Len(admitted) > limit
    /\ AdmittedIn(now, intervalMs) = limit

\* The call in slot t returned after providers[0] failed maxRetries times
\* and providers[1] succeeded at its first try.
FailoverCase(t) ==
    /\ Returned(t)
    /\ Len(Calls(log[t])) = maxRetries + 1
    /\ \A j \in 1..maxRetries : Calls(log[t])[j] = CallEvent(1, FALSE)
    /\ Calls(log[t])[maxRetries + 1] = CallEvent(2, TRUE)

\* C5 as claimed: in the failover case send returns sent, with provider
\* providers[1].name and attempts maxRetries + 1.
FailoverAttemptsTotal ==
    \A t \in Tasks :
        FailoverCase(t) =>
            ret[t] = [status |-> "sent", provider |-> ProviderName(2),
                      attempts |-> maxRetries + 1]

\* C5 amended: in the failover case send returns sent, with provider
\* providers[1].name and attempts 1.
FailoverAttemptsOne ==
    \A t \in Tasks :
        FailoverCase(t) =>
            ret[t] = [status |-> "sent", provider |-> ProviderName(2),
                      attempts |-> 1]

\* C5 witness: the failover case with the default maxRetries.
FailoverReached ==
    \E t \in Tasks : FailoverCase(t) /\ maxRetries = DefaultMaxRetries

\* C6: a returned sent status that ends a call which made backend calls
\* names the provider of the call's last, successful, backend call, and its
\* attempts is the number of calls the send made to that provider alone,
\* between 1 and maxRetries; a sent status returned at line 45 has attempts
\* between 1 and maxRetries too.
SentAttemptsPerBackend ==
    \A t \in Tasks :
        (Returned(t) /\ ret[t].status = "sent") =>
            /\ ret[t].attempts \in 1..maxRetries
            /\ ~short[t] =>
                 LET cs == Calls(log[t])
                     last == cs[Len(cs)]
                 IN  /\ Len(cs) >= 1
                     /\ last.ok
                     /\ \A j \in 1..(Len(cs) - 1) : ~cs[j].ok
                     /\ ret[t].provider = ProviderName(last.p)
                     /\ ret[t].attempts = Len(CallsOn(log[t], last.p))
                     /\ Len(cs) = (last.p - 1) * maxRetries + ret[t].attempts

\* C6 witness: maxRetries = 3, providers[0] fails every attempt, providers[1]
\* succeeds at its 2nd attempt, and send returns sent with attempts 2.
SecondAttemptOnFallbackReached ==
    \E t \in Tasks :
        /\ Returned(t)
        /\ maxRetries = 3
        /\ Len(Calls(log[t])) = 5
        /\ ret[t] = [status |-> "sent", provider |-> ProviderName(2), attempts |-> 2]

\* C7: a returned failed status has attempts maxRetries * (number of
\* providers), and the call that returned it made that many backend calls:
\* maxRetries to each provider, every one of them failing.
FailedAttemptsAreCallsMade ==
    \A t \in Tasks :
        (Returned(t) /\ ret[t].status = "failed") =>
            /\ ret[t].attempts = maxRetries * NumProviders
            /\ Len(Calls(log[t])) = ret[t].attempts
            /\ \A p \in 1..NumProviders : Len(FailedCallsOn(log[t], p)) = maxRetries


\* C8: a send that is not returned at line 45 is turned away exactly when
\* limit sends were admitted in the window ending at its admission check: it
\* then returns rate_limited with attempts 0, that status is the one stored
\* for its emailId, and it made no backend call; with fewer admitted it goes
\* on to the providers.  So of the sends issued in one window, exactly limit
\* go on and every further one is turned away.
RateLimitedBeyondLimit ==
    /\ AdmittedIn(now, intervalMs) <= limit
    /\ \A t \in Tasks :
        (pc[t] # "idle" /\ ~short[t]) =>
            IF admCount[t] >= limit
            THEN /\ admCount[t] = limit
                 /\ Returned(t)
                 /\ ret[t] = [status |-> "rate_limited", attempts |-> 0]
                 /\ emailId[t] \in DOMAIN statusMap
                 /\ statusMap[emailId[t]] = ret[t]
                 /\ log[t] = <<>>
            ELSE /\ Len(Calls(log[t])) >= 1
                 /\ Returned(t) => ret[t].status \in {"sent", "failed"}

\* C8 witness: six sends for six distinct emailIds at one clock reading: five
\* were admitted and the sixth returned rate_limited.
SixthSendRateLimited ==
    /\ nsends = ServiceLimit + 1
    /\ Cardinality(seen) = ServiceLimit + 1
    /\ nticks = 0
    /\ Len(admitted) = ServiceLimit
    /\ denied = 1
    /\ Returned(1)
    /\ ret[1].status = "rate_limited"

\* C9: every send call in flight eventually returns, and a call that
\* returned after its last backend call failed made maxRetries calls to each
\* provider and returned failed.
EverySendReturns ==
    /\ \A t \in Tasks : InFlight(t) ~> Returned(t)
    /\ [](\A t \in Tasks :
            (Returned(t) /\ ~short[t]) =>
                /\ ret[t].status \in TerminalStatuses
                /\ (Len(Calls(log[t])) >= 1 /\ ~Calls(log[t])[Len(Calls(log[t]))].ok) =>
                      /\ ret[t].status = "failed"
                      /\ Len(Calls(log[t])) = maxRetries * NumProviders)

\* C9 witness: a call returned failed after every backend call it made
\* failed, with the default maxRetries.
ExhaustedReturnedFailed ==
    \E t \in Tasks :
        /\ Returned(t)
        /\ maxRetries = DefaultMaxRetries
        /\ ret[t].status = "failed"
        /\ Len(Calls(log[t])) = DefaultMaxRetries * NumProviders

\* C10: no send call ends by throwing; a returned call returned one of the
\* three statuses; and every rejected sendEmail call that send has resumed
\* from is counted in attempts.
NeverThrows ==
    \A t \in Tasks :
        /\ pc[t] # "threw"
        /\ Returned(t) => ret[t].status \in TerminalStatuses
        /\ InFlight(t) =>
             attempts[t] = Len(FailedCallsOn(log[t], prov[t]))
                           - (IF pc[t] = "calling" /\ pending[t] = "rejected" THEN 1 ELSE 0)

\* C10 witness: a call in flight whose last provider has rejected its last
\* attempt, after every earlier attempt was rejected too.
LastAttemptRejected ==
    \E t \in Tasks :
        /\ pc[t] = "backoff"
        /\ prov[t] = NumProviders
        /\ attempts[t] = maxRetries
        /\ maxRetries = DefaultMaxRetries

\* C11: getStatus of an emailId never passed to send returns the unknown
\* status, and no value stored in statusMap is the unknown status.
UnknownOnlyFromLookup ==
    /\ \A j \in 1..Len(lookup) :
          lookup[j].fresh => lookup[j].result = UnknownStatus
    /\ \A e \in DOMAIN statusMap : statusMap[e].status # "unknown"

\* C11 witness: with a status stored for another emailId, getStatus of an
\* emailId never passed to send has returned unknown.
UnknownLookupReached ==
    /\ Len(lookup) = 1
    /\ lookup[1].fresh
    /\ lookup[1].result = UnknownStatus
    /\ lookup[1].id \notin seen
    /\ DOMAIN statusMap # {}

\* C12: of the send calls made for one emailId that overlap, where no
\* earlier call named that emailId, at most one ever calls a backend.
AtomicClaimOneDispatcher ==
    \A t1, t2 \in Tasks :
        (/\ t1 # t2
         /\ InFlight(t1) /\ InFlight(t2)
         /\ emailId[t1] = emailId[t2]
         /\ Cardinality({t \in Tasks : pc[t] # "idle" /\ emailId[t] = emailId[t1]}) = 2)
        => ~(Len(Calls(log[t1])) >= 1 /\ Len(Calls(log[t2])) >= 1)

\* C13: within one send call every backoff wait follows a failed backend
\* call and is followed by another call to the same provider: a wait that
\* has begun is one after which the retry loop of that provider goes on, and
\* a wait that is over was followed by a call to the same provider.
WaitsOnlyBetweenRetries ==
    \A t \in Tasks :
        \A j \in 1..Len(log[t]) :
            log[t][j].k = "wait" =>
                /\ j > 1
                /\ log[t][j - 1] = CallEvent(log[t][j].p, FALSE)
                /\ IF j < Len(log[t])
                   THEN /\ log[t][j + 1].k = "call"
                        /\ log[t][j + 1].p = log[t][j].p
                   ELSE /\ pc[t] = "backoff"
                        /\ RetryCond(attempts[t], maxRetries)

\* C14: within one send call the providers are called in their configured
\* order and one call at a time: a call to providers[p] is made only after
\* every earlier provider was called exactly maxRetries times and failed
\* each time, no call to an earlier provider follows it, no provider is
\* called more than maxRetries times, and a backend call is made only after
\* the call before it was settled as failed (the catch branch ran).
BackendsInOrderOneAtATime ==
    \A t \in Tasks :
        LET cs == Calls(log[t])
        IN  /\ \A j \in 1..Len(cs) :
                  /\ cs[j].p \in 1..NumProviders
                  /\ j > 1 => cs[j - 1].p <= cs[j].p /\ ~cs[j - 1].ok
                  /\ \A q \in 1..(cs[j].p - 1) :
                        /\ Len(CallsOn(log[t], q)) = maxRetries
                        /\ Len(FailedCallsOn(log[t], q)) = maxRetries
            /\ \A q \in 1..NumProviders : Len(CallsOn(log[t], q)) <= maxRetries
            /\ \A j \in 1..(Len(log[t]) - 1) :
                  log[t][j].k = "call" => log[t][j + 1].k = "wait"
            /\ (Len(log[t]) >= 1 /\ log[t][Len(log[t])].k = "call")
                  => (pc[t] = "calling" \/ (Returned(t) /\ log[t][Len(log[t])].ok))

\* C14 witness: with the default maxRetries a call is making its second
\* call to providers[1] after three failed calls to providers[0] and one
\* failed call to providers[1].
SecondProviderRetryReached ==
    \E t \in Tasks :
        /\ pc[t] = "calling"
        /\ maxRetries = DefaultMaxRetries
        /\ prov[t] = 2
        /\ Len(CallsOn(log[t], 1)) = DefaultMaxRetries
        /\ Len(CallsOn(log[t], 2)) = 2

\* C15: a send call made for an emailId whose stored status is not sent
\* (rate_limited, failed or none) is not returned at line 45: it makes an
\* admission check, and if admitted it calls providers[0] first; and when a
\* call that was not returned at line 45 returns, the status it returns is
\* the one stored for its emailId.  (The call made in a step is the one in
\* slot nsends'.)
OnlySentShortCircuits ==
    [][/\ \A t \in Tasks :
            (/\ nsends' = nsends + 1
             /\ t = nsends'
             /\ MapGet(statusMap, emailId'[t]).status # "sent")
            => /\ ~short'[t]
               /\ Len(admitted') + denied' = Len(admitted) + denied + 1
               /\ Len(admitted') > Len(admitted) =>
                     /\ pc'[t] = "calling"
                     /\ Len(log'[t]) = 1
                     /\ log'[t][1].k = "call" /\ log'[t][1].p = 1
               /\ denied' > denied =>
                     /\ pc'[t] = "done"
                     /\ ret'[t] = RateLimitedStatus
       /\ \A t \in Tasks :
            (pc[t] # "done" /\ pc'[t] = "done" /\ ~short'[t])
            => MapGet(statusMap', emailId'[t]) = ret'[t]]_vars

\* C16: a send call that returns at line 45 (its emailId is in sentEmails)
\* makes no admission check and leaves the limiter's timestamps, statusMap
\* and sentEmails as they were.  (The call made in a step is the one in slot
\* nsends'.)
ShortCircuitLeavesLimiter ==
    [][\A t \in Tasks :
          (nsends' = nsends + 1 /\ t = nsends' /\ short'[t])
          => /\ timestamps' = timestamps
             /\ statusMap' = statusMap
             /\ sentEmails' = sentEmails
             /\ admitted' = admitted /\ denied' = denied
             /\ now' = now]_vars

\* C16 witness: two sends were made, the second returned the stored sent
\* status at line 45, and the limiter holds the first call's timestamp only.
ShortCircuitAfterSentReached ==
    /\ nsends = 2
    /\ short[2] /\ Returned(2) /\ ret[2].status = "sent"
    /\ Len(timestamps) = 1
    /\ Len(admitted) = 1

\* the backoff waits of a call's log on provider p, in order
WaitsOn(lg, p) == SelectSeq(lg, LAMBDA ev : ev.k = "wait" /\ ev.p = p)

\* C17: within one send call the k-th backoff wait on a provider lasts
\* 100 * 2^(k-1) ms, for every provider: each wait on a provider is twice
\* the wait before it on that provider, and the first wait on each provider
\* is 100 ms.
BackoffDoubles ==
    \A t \in Tasks :
        \A p \in 1..NumProviders :
            LET ws == WaitsOn(log[t], p)
            IN  /\ Len(ws) <= maxRetries
                /\ \A k \in 1..Len(ws) :
                      /\ ws[k].d = 100 * 2^(k - 1)
                      /\ k > 1 => ws[k].d = 2 * ws[k - 1].d /\ ws[k].d > ws[k - 1].d

\* C17 witness: a call has waited 100, 200 and 400 ms on providers[0] and
\* then 100 and 200 ms on providers[1].
BackoffRestartReached ==
    \E t \in Tasks :
        /\ Len(WaitsOn(log[t], 1)) = 3
        /\ WaitsOn(log[t], 1)[3].d = 400
        /\ Len(WaitsOn(log[t], 2)) = 2
        /\ WaitsOn(log[t], 2)[1].d = 100
        /\ WaitsOn(log[t], 2)[2].d = 200

\* C18 as claimed: with intervalMs = 0 every isAllowed call returns true and
\* leaves in timestamps the time of the call alone, for every limit >= 0.
ZeroWindowAlwaysAllows ==
    [][intervalMs = 0 =>
          /\ admitted' = Append(admitted, now')
          /\ denied' = denied
          /\ timestamps' = <<now'>>]_vars

\* C18 amended: with intervalMs = 0 and limit >= 1 every isAllowed call
\* returns true and leaves in timestamps the time of the call alone; with
\* intervalMs = 0 and limit = 0 every call returns false and leaves
\* timestamps empty.
ZeroWindowAllowsPositiveLimit ==
    [][intervalMs = 0 =>
          IF limit >= 1
          THEN /\ admitted' = Append(admitted, now')
               /\ denied' = denied
               /\ timestamps' = <<now'>>
          ELSE /\ admitted' = admitted
               /\ denied' = denied + 1
               /\ timestamps' = <<>>]_vars

\* C18 witness: a limiter with intervalMs = 0 and limit 1 has admitted three
\* calls, two of them at the same time, and denied none.
ZeroWindowReached ==
    /\ intervalMs = 0
    /\ limit = 1
    /\ denied = 0
    /\ Len(admitted) = 3
    /\ admitted[1] = admitted[2]
    /\ admitted[3] > admitted[2]
    /\ timestamps = <<now>>

\* C19: no step takes the stored status of an emailId from sent to
\* rate_limited, however the send calls overlap; and a send call made for
\* an emailId that is in sentEmails is never answered rate_limited.
SentNeverRateLimited ==
    [][/\ \A e \in DOMAIN statusMap :
            statusMap[e].status = "sent" => statusMap'[e].status # "rate_limited"
       /\ \A t \in Tasks :
            (FreeSlot(t) /\ nsends' = nsends + 1 /\ emailId'[t] \in sentEmails)
            => ret'[t].status # "rate_limited"]_vars

\* C19 witness: the limiter's window is full (limit calls admitted at the
\* current clock reading); the call that was admitted last ran in some
\* slot, and the next call in that slot, made for an emailId whose stored
\* status is sent while another call is in flight, returned the stored sent
\* status.
SentKeptWithWindowFull ==
    \E t \in Tasks :
        /\ Len(admitted) = limit
        /\ AdmittedIn(now, intervalMs) = limit
        /\ admCount[t] = limit - 1
        /\ short[t] /\ Returned(t)
        /\ ret[t].status = "sent"
        /\ statusMap[emailId[t]].status = "sent"
        /\ \E u \in Tasks : InFlight(u)

\* the values held in a sequence
Elems(q) == {q[j] : j \in 1..Len(q)}

====
